---- MODULE Spec2Model ----
(***************************************************************************)
(* Model of the contract-spreadsheet pipeline of leitorback:               *)
(*   src/main.py                           the /processar_contratos/ route *)
(*   src/app/services/process_contratos.py the pipeline itself             *)
(*                                                                         *)
(* A DataFrame is a record [columns, rows]: the set of column names and    *)
(* the sequence of rows.  A row carries its pandas index label (idx) and   *)
(* the cells of the columns the pipeline takes decisions on: the contract  *)
(* key, the audit status, column B (position 1) and the two payment        *)
(* destination columns.  Cells of a column the frame does not have are NA. *)
(* A file name is a sequence of tokens; the form markers are token         *)
(* sequences, so that "in" on strings is sub-sequence search.              *)
(***************************************************************************)
EXTENDS Integers, Sequences, FiniteSets, TLC

\* ------------------------------------------------------------------ bounds
MaxNameLen == 4      \* tokens in a file name (classifier specification)
MaxRows == 3         \* rows of a table (reducer specification)
MaxFileRows == 2     \* rows of an uploaded file (pipeline specification)
MaxFiles == 2        \* files of a request (pipeline specification)
ColumnSpread == 5    \* widths of a header around the BT/BU threshold, each way

\* --------------------------------------------------------------- utilities
NA == "<NA>"

Range(s) == {s[i] : i \in 1..Len(s)}

SeqsUpTo(S, n) == UNION {[1..k -> S] : k \in 0..n}

RECURSIVE SumSeq(_)
SumSeq(s) == IF s = <<>> THEN 0 ELSE Head(s) + SumSeq(Tail(s))

\* s[i..j] of a string-like sequence; "needle in haystack" of Python
Contains(needle, hay) ==
    \E i \in 0..(Len(hay) - Len(needle)) :
        \A j \in 1..Len(needle) : hay[i + j] = needle[j]

\* ------------------------------------------------------------- file names
Tokens == {"3026", "-", "11", "12", "15", "a"}

\* str.upper() on one token: only letters change
UpperToken(t) == IF t = "a" THEN "A" ELSE t

Upper(name) == [i \in 1..Len(name) |-> UpperToken(name[i])]

\* str.replace("-", "")
RECURSIVE RemoveHyphens(_)
RemoveHyphens(name) ==
    IF name = <<>> THEN <<>>
    ELSE IF Head(name) = "-" THEN RemoveHyphens(Tail(name))
         ELSE <<Head(name)>> \o RemoveHyphens(Tail(name))

Marker(form) ==
    CASE form = "3026-11" -> <<"3026", "-", "11">>
      [] form = "3026-12" -> <<"3026", "-", "12">>
      [] form = "3026-15" -> <<"3026", "-", "15">>
      [] OTHER -> <<form>>

\* results of a call: a value, or the HTTPException the call raised
Return(v) == [ok |-> TRUE, value |-> v, status |-> 200, detail |-> "", about |-> <<>>]
Raise(st, d, f) == [ok |-> FALSE, value |-> NA, status |-> st, detail |-> d, about |-> f]

detect_file_type_swapped(filename) ==
    LET filename_upper == Upper(filename) IN
    IF Contains(<<"3026", "-", "12">>, filename_upper) \/ Contains(<<"3026", "12">>, filename_upper)
    THEN Return("3026-12")
    ELSE IF Contains(<<"3026", "-", "11">>, filename_upper) \/ Contains(<<"3026", "11">>, filename_upper)
    THEN Return("3026-11")
    ELSE IF Contains(<<"3026", "-", "15">>, filename_upper) \/ Contains(<<"3026", "15">>, filename_upper)
    THEN Return("3026-15")
    ELSE Raise(400, "Tipo de arquivo nao reconhecido", filename)

detect_file_type(filename) ==
    LET filename_upper == Upper(filename) IN
    IF Contains(<<"3026", "-", "11">>, filename_upper) \/ Contains(<<"3026", "11">>, filename_upper)
    THEN Return("3026-11")
    ELSE IF Contains(<<"3026", "-", "12">>, filename_upper) \/ Contains(<<"3026", "12">>, filename_upper)
    THEN Return("3026-12")
    ELSE IF Contains(<<"3026", "-", "15">>, filename_upper) \/ Contains(<<"3026", "15">>, filename_upper)
    THEN Return("3026-15")
    ELSE Raise(400, "Tipo de arquivo nao reconhecido", filename)


\* ------------------------------------------------------------------ cells
\* A cell that pandas may read as a number or as text.  A numeric cell
\* keeps the decimal rendering of its integer part in v.
Num(v) == [t |-> "num", v |-> v]
Str(v) == [t |-> "str", v |-> v]
NaCell == [t |-> "na", v |-> ""]

\* a rendering that leaves numeric cells as numbers
format_cell_numbers_kept(x) ==
    IF x.t = "num" THEN x
    ELSE IF x.t = "str" THEN Str(x.v)
    ELSE Str("")

\* lambda x: str(int(x)) if notna(x) and isinstance(x, (int, float))
\*           else str(x) if notna(x) else ''
format_cell(x) ==
    IF x.t = "num" THEN Str(x.v)
    ELSE IF x.t = "str" THEN Str(x.v)
    ELSE Str("")

\* .astype(str).str.upper().str.strip() on the status values of the model
NormText(s) ==
    CASE s = "audi" -> "AUDI"
      [] s = " naud" -> "NAUD"
      [] s = "0x0" -> "0X0"
      [] s = NA -> "NAN"
      [] OTHER -> s

\* ------------------------------------------------------------------ dates
\* A calendar date: its month, numbered along the calendar, and its day of
\* the month.  The days of the model stay at or below 28, where subtracting
\* months never has to clip the day.
Date(m, d) == [t |-> "date", m |-> m, d |-> d]

\* pd.to_datetime(errors='coerce'): a date stays, anything else becomes NaT
IsDate(x) == x.t = "date"

\* a >= b on dates
NotBefore(a, b) == a.m > b.m \/ (a.m = b.m /\ a.d >= b.d)

\* date - relativedelta(months=k)
minus_months(date, k) == [date EXCEPT !.m = @ - k]

\* the window of filter_last_2_months, in months
dois_meses == 2

\* ------------------------------------------------------------- DataFrames
ContratoAliases == <<"CONTRATO", "CONTRATO_NUM", "NUM_CONTRATO", "NR_CONTRATO">>
AuditadoAliases == <<"AUDITADO", "AUD", "AUDIT">>
filter_cols == <<"DEST.PAGAM", "DEST.COMPLEM">>

\* coluna_d names the column at position 3 of a table read from a file when
\* that column is the contract key; it is NA when position 3 holds another
\* column or the table has fewer than four columns.
DataFrame(cols, rows) == [columns |-> cols, rows |-> rows, coluna_d |-> NA]
EmptyFrame == DataFrame({}, <<>>)

\* DataFrame.empty: some axis has length 0
IsEmpty(df) == df.rows = <<>> \/ df.columns = {}

\* first name of the alias list that is a column of the frame, or NA
RECURSIVE FirstAlias(_, _)
FirstAlias(aliases, cols) ==
    IF aliases = <<>> THEN NA
    ELSE IF Head(aliases) \in cols THEN Head(aliases)
         ELSE FirstAlias(Tail(aliases), cols)

\* df.rename(columns={old: new})
Rename(cols, old, new) == IF old \in cols THEN (cols \ {old}) \cup {new} ELSE cols

\* df.drop_duplicates(subset=['CONTRATO'], keep='last')
RECURSIVE drop_duplicates_keep_last(_)
drop_duplicates_keep_last(rows) ==
    IF rows = <<>> THEN <<>>
    ELSE LET rest == Tail(rows) IN
         IF \E i \in 1..Len(rest) : rest[i].CONTRATO = Head(rows).CONTRATO
         THEN drop_duplicates_keep_last(rest)
         ELSE <<Head(rows)>> \o drop_duplicates_keep_last(rest)

\* df.drop_duplicates(subset=['AUDITADO'], keep='first')
RECURSIVE drop_duplicates_by_status(_)
drop_duplicates_by_status(rows) ==
    IF rows = <<>> THEN <<>>
    ELSE LET init == SubSeq(rows, 1, Len(rows) - 1)
             last == rows[Len(rows)]
         IN IF \E i \in 1..Len(init) : init[i].AUDITADO = last.AUDITADO
            THEN drop_duplicates_by_status(init)
            ELSE Append(drop_duplicates_by_status(init), last)

\* df.drop_duplicates(subset=['CONTRATO'], keep='first')
RECURSIVE drop_duplicates(_)
drop_duplicates(rows) ==
    IF rows = <<>> THEN <<>>
    ELSE LET init == SubSeq(rows, 1, Len(rows) - 1)
             last == rows[Len(rows)]
         IN IF \E i \in 1..Len(init) : init[i].CONTRATO = last.CONTRATO
            THEN drop_duplicates(init)
            ELSE Append(drop_duplicates(init), last)

\* series.duplicated(keep=False): the row's key occurs more than once
Duplicated(rows, r) ==
    Cardinality({i \in 1..Len(rows) : rows[i].CONTRATO = r.CONTRATO}) > 1

\* format_contrato_column: only a column named CONTRATO is rewritten
format_contrato_column(df) ==
    IF "CONTRATO" \in df.columns
    THEN [df EXCEPT !.rows = [k \in 1..Len(df.rows) |->
                                 [df.rows[k] EXCEPT !.CONTRATO = format_cell(@)]]]
    ELSE df

\* format_column_d_as_text: the column at position 3 is rewritten by the same
\* lambda, whatever its name
format_column_d_as_text(df) ==
    IF df.coluna_d # NA
    THEN [df EXCEPT !.rows = [k \in 1..Len(df.rows) |->
                                 [df.rows[k] EXCEPT !.CONTRATO = format_cell(@)]]]
    ELSE df

\* the mask of line 187 taken with a strict comparison
filter_last_2_months_strict(df, hoje) ==
    IF "DT.MANIFESTACAO" \in df.columns
    THEN LET dois_meses_atras == minus_months(hoje, dois_meses) IN
         DataFrame(df.columns,
                   SelectSeq(df.rows, LAMBDA r : /\ IsDate(r.DT)
                                                 /\ NotBefore(r.DT, dois_meses_atras)
                                                 /\ r.DT # dois_meses_atras))
    ELSE df

\* filter_last_2_months, hoje being the date datetime.now() gives: the rows
\* whose manifestation date is a date on or after hoje minus two months; a
\* frame without a manifestation-date column comes back unchanged
filter_last_2_months(df, hoje) ==
    IF "DT.MANIFESTACAO" \in df.columns
    THEN LET dois_meses_atras == minus_months(hoje, dois_meses) IN
         DataFrame(df.columns,
                   SelectSeq(df.rows, LAMBDA r : /\ IsDate(r.DT)
                                                 /\ NotBefore(r.DT, dois_meses_atras)))
    ELSE df

\* (table, total_linhas, total_unicos, total_duplicados)
Result(df, total, unicos, duplicados) ==
    [df |-> df, total_linhas |-> total, total_unicos |-> unicos,
     total_duplicados |-> duplicados]

EmptyResult == Result(EmptyFrame, 0, 0, 0)

\* total_duplicados counted as the rows whose key is repeated
process_3026_11_marked(df0) ==
    IF IsEmpty(df0) THEN Return(EmptyResult)
    ELSE LET df == format_column_d_as_text(df0)
             coluna_contrato == FirstAlias(ContratoAliases, df.columns)
         IN
         IF coluna_contrato = NA
         THEN Raise(400, "Coluna CONTRATO nao encontrada no arquivo 3026-11", <<>>)
         ELSE LET cols == Rename(df.columns, coluna_contrato, "CONTRATO")
                  total_linhas == Len(df.rows)
                  df_processado == DataFrame(cols, drop_duplicates(df.rows))
                  total_unicos == Len(df_processado.rows)
              IN Return(Result(df_processado, total_linhas, total_unicos,
                               Len(SelectSeq(df.rows, LAMBDA r : Duplicated(df.rows, r)))))

process_3026_11(df0) ==
    IF IsEmpty(df0) THEN Return(EmptyResult)
    ELSE LET df == format_column_d_as_text(df0)
             coluna_contrato == FirstAlias(ContratoAliases, df.columns)
         IN
         IF coluna_contrato = NA
         THEN Raise(400, "Coluna CONTRATO nao encontrada no arquivo 3026-11", <<>>)
         ELSE LET cols == Rename(df.columns, coluna_contrato, "CONTRATO")
                  total_linhas == Len(df.rows)
                  df_processado == DataFrame(cols, drop_duplicates(df.rows))
                  total_unicos == Len(df_processado.rows)
              IN Return(Result(df_processado, total_linhas, total_unicos,
                               total_linhas - total_unicos))

process_3026_15(df0) ==
    IF IsEmpty(df0) THEN Return(EmptyResult)
    ELSE LET df == format_column_d_as_text(df0)
             coluna_contrato == FirstAlias(ContratoAliases, df.columns)
         IN
         IF coluna_contrato = NA
         THEN Raise(400, "Coluna CONTRATO nao encontrada no arquivo 3026-15", <<>>)
         ELSE LET cols == Rename(df.columns, coluna_contrato, "CONTRATO")
                  total_linhas == Len(df.rows)
                  df_processado == DataFrame(cols, drop_duplicates(df.rows))
                  total_unicos == Len(df_processado.rows)
              IN Return(Result(df_processado, total_linhas, total_unicos,
                               total_linhas - total_unicos))

\* ---------------------------------------------------------------- form 12
AudSynonyms == {"AUDI", "AUD", "AUDITADO"}
\* a not-audited list that also takes the audited spelling AUDI
NaudSynonyms_with_audi == {"NAUD", "NAO AUDITADO", "NAUDITADO", "NÃO AUDITADO", "AUDI"}
NaudSynonyms == {"NAUD", "NAO AUDITADO", "NAUDITADO", "NÃO AUDITADO"}
valores_filtro == {"0X0", "1X4", "6X4", "8X4", "0x0", "1x4", "6x4", "8x4"}

\* the filter on column B applied even when it leaves no row
FilterColumnB_unconditional(df) ==
    IF "B" \in df.columns
    THEN LET rows == [k \in 1..Len(df.rows) |-> [df.rows[k] EXCEPT !.B = format_cell(@)]]
         IN [df EXCEPT !.rows = SelectSeq(rows, LAMBDA r : r.B = Str("52101"))]
    ELSE df

\* step 1: column B rendered as text; rows with B = 52101 kept when there
\* are any.  A frame without B stands for a frame whose position-1 column
\* holds no 52101 (or that has a single column): the filter is skipped.
FilterColumnB(df) ==
    IF "B" \in df.columns
    THEN LET rows == [k \in 1..Len(df.rows) |-> [df.rows[k] EXCEPT !.B = format_cell(@)]]
             df_filtrado == SelectSeq(rows, LAMBDA r : r.B = Str("52101"))
         IN IF Len(df_filtrado) = 0 THEN [df EXCEPT !.rows = rows]
            ELSE [df EXCEPT !.rows = df_filtrado]
    ELSE df

\* the payment-destination exclusion applied to one partition
DestFilter(cols, rows0) ==
    LET step1 == IF "DEST.PAGAM" \in cols /\ Len(rows0) > 0
                 THEN SelectSeq([k \in 1..Len(rows0) |-> [rows0[k] EXCEPT !.DEST_PAGAM = NormText(@)]],
                                 LAMBDA r : r.DEST_PAGAM \notin valores_filtro)
                 ELSE rows0
        step2 == IF "DEST.COMPLEM" \in cols /\ Len(step1) > 0
                 THEN SelectSeq([k \in 1..Len(step1) |-> [step1[k] EXCEPT !.DEST_COMPLEM = NormText(@)]],
                                 LAMBDA r : r.DEST_COMPLEM \notin valores_filtro)
                 ELSE step1
    IN step2

\* lines 375-456: the two partitions before deduplication, or the error
Partition12(df0) ==
    LET df == format_column_d_as_text(FilterColumnB(df0))
        coluna_auditado == FirstAlias(AuditadoAliases, df.columns)
        coluna_contrato == FirstAlias(ContratoAliases, df.columns)
    IN IF coluna_auditado = NA
       THEN Raise(400, "Coluna AUDITADO nao encontrada no arquivo 3026-12", <<>>)
       ELSE IF coluna_contrato = NA
       THEN Raise(400, "Coluna CONTRATO nao encontrada no arquivo 3026-12", <<>>)
       ELSE LET cols == Rename(df.columns, coluna_contrato, "CONTRATO")
                rows == [k \in 1..Len(df.rows) |-> [df.rows[k] EXCEPT !.AUDITADO = NormText(@)]]
                df_aud == SelectSeq(rows, LAMBDA r : r.AUDITADO \in AudSynonyms)
                df_naud == SelectSeq(rows, LAMBDA r : r.AUDITADO \in NaudSynonyms)
            IN Return([columns |-> cols,
                       normalized |-> rows,
                       df_aud |-> df_aud,
                       df_naud |-> df_naud,
                       aud |-> DestFilter(cols, df_aud),
                       naud |-> DestFilter(cols, df_naud)])

\* lines 458-476: one partition reduced
ReducePartition(cols, part) ==
    LET total == Len(part) IN
    IF total > 0
    THEN LET unicos == drop_duplicates(part)
         IN Result(DataFrame(cols, unicos), total, Len(unicos), total - Len(unicos))
    ELSE Result(EmptyFrame, total, 0, total - 0)

process_3026_12(df) ==
    IF IsEmpty(df) THEN Return([aud |-> EmptyResult, naud |-> EmptyResult])
    ELSE IF Len(FilterColumnB(df).rows) = 0
    THEN Return([aud |-> EmptyResult, naud |-> EmptyResult])
    ELSE LET p == Partition12(df) IN
         IF ~p.ok THEN p
         ELSE Return([aud |-> ReducePartition(p.value.columns, p.value.aud),
                      naud |-> ReducePartition(p.value.columns, p.value.naud)])

\* ------------------------------------------------------------------ state
VARIABLES
    pc,                     \* position of the request or of the function call
    req,                    \* the request: form fields and file names
    uploads,                \* file bodies of a request that comes through the HTTP route
    i,                      \* number of files the loop has consumed
    all_contratos,          \* list of per-file, per-category tables
    contratos_repetidos,    \* list of tables of duplicate-marked rows
    resumo_geral,           \* list of per-file summary records
    dados_por_aba,          \* sheet label -> list of tables
    dados_ultimos_2_meses,  \* list of recent-window tables
    arquivo_morto,          \* archive: the files written so far
    response,               \* the answer to the request
    arg,                    \* input of the function under study
    fn,                     \* the function applied to arg
    ret                     \* its result

vars == <<pc, req, uploads, i, all_contratos, contratos_repetidos, resumo_geral,
          dados_por_aba, dados_ultimos_2_meses, arquivo_morto, response, arg, fn, ret>>

accumulators == <<all_contratos, contratos_repetidos, resumo_geral, dados_por_aba,
                  dados_ultimos_2_meses>>

NoWorkbook == [resumo |-> <<>>, sheets |-> <<>>]

NoResponse == [status |-> 0, detail |-> "", about |-> <<>>, workbook |-> NoWorkbook]

\* a StreamingResponse carrying the workbook / an HTTPException
Answer(wb) == [status |-> 200, detail |-> "", about |-> <<>>, workbook |-> wb]
Error(st, d, f) == [status |-> st, detail |-> d, about |-> f, workbook |-> NoWorkbook]

NoRequest == [files |-> <<>>, bank_type |-> NA, filter_type |-> NA, file_type |-> NA,
              period_filter |-> NA, period_filter_enabled |-> NA,
              reference_date |-> NA, months_back |-> 0]

SheetLabels == {"3026-11", "3026-12 AUD", "3026-12 NAUD", "3026-15"}

\* lines 680-695: the empty consolidation structures
FreshAccumulators ==
    /\ all_contratos = <<>>
    /\ contratos_repetidos = <<>>
    /\ resumo_geral = <<>>
    /\ dados_por_aba = [l \in SheetLabels |-> <<>>]
    /\ dados_ultimos_2_meses = <<>>

NoRequestInFlight ==
    /\ req = NoRequest
    /\ uploads = <<>>
    /\ i = 0
    /\ FreshAccumulators
    /\ arquivo_morto = {}
    /\ response = NoResponse

NoCall ==
    /\ arg = NA
    /\ fn = NA
    /\ ret = NA

\* ------------------------------------------- specification: Form Classifier
FileNamesUpTo(n) == SeqsUpTo(Tokens, n)

InitClassify ==
    /\ pc = "classify"
    /\ arg \in FileNamesUpTo(MaxNameLen)
    /\ fn = NA
    /\ ret = NA
    /\ NoRequestInFlight

Classify ==
    /\ pc = "classify"
    /\ pc' = "classified"
    /\ fn' = "detect_file_type"
    /\ ret' = detect_file_type(arg)
    /\ UNCHANGED <<req, uploads, i, accumulators, arquivo_morto, response, arg>>

NextClassify == Classify

SpecClassify == InitClassify /\ [][NextClassify]_vars

\* ---------------------------------------------- specification: Row Reducer
KeyCells == {Str("1"), Num("2")}
StatusCells == {"AUDI", " naud", "X"}
BCells == {Num("52101"), Str("9")}
DestCells == {"0x0", "OK"}
\* manifestation dates: the last modelled day of month 0 and the first day of
\* month 1
DateCells == {Date(0, 28), Date(1, 1)}

HasAny(aliases, cols) == Range(aliases) \cap cols # {}

\* the rows a frame with the given columns can hold, index label aside
RowCells(cols, keys, statuses) ==
    [CONTRATO : IF HasAny(ContratoAliases, cols) THEN keys ELSE {NaCell},
     AUDITADO : IF HasAny(AuditadoAliases, cols) THEN statuses ELSE {NA},
     B : IF "B" \in cols THEN BCells ELSE {NaCell},
     DEST_PAGAM : IF "DEST.PAGAM" \in cols THEN DestCells ELSE {NA},
     DEST_COMPLEM : IF "DEST.COMPLEM" \in cols THEN DestCells ELSE {NA},
     DT : IF "DT.MANIFESTACAO" \in cols THEN DateCells ELSE {NaCell}]

\* pandas numbers the rows of a frame it reads 0, 1, 2, ...
Indexed(cells) == [k \in 1..Len(cells) |-> [idx |-> k - 1] @@ cells[k]]

Frames(cols, keys, statuses, n) ==
    {DataFrame(cols, Indexed(cells)) : cells \in SeqsUpTo(RowCells(cols, keys, statuses), n)}

ReduceLayouts ==
    {{"CONTRATO", "AUDITADO"},
     {"NR_CONTRATO", "AUD"},
     {"CONTRATO", "AUDITADO", "B"},
     {"CONTRATO", "AUDITADO", "DEST.PAGAM"},
     {"CONTRATO", "AUDITADO", "DEST.COMPLEM"},
     {"CONTRATO"},
     {"AUDITADO"}}

\* the layouts with a filter column take the two statuses the partitions keep
ReduceFrames ==
    {EmptyFrame} \cup
    UNION {Frames(cols, KeyCells,
                  IF cols \cap {"B", "DEST.PAGAM", "DEST.COMPLEM"} = {}
                  THEN StatusCells ELSE StatusCells \ {"X"},
                  MaxRows) : cols \in ReduceLayouts}

InitReduce ==
    /\ pc = "reduce"
    /\ arg \in ReduceFrames
    /\ fn = NA
    /\ ret = NA
    /\ NoRequestInFlight

Apply11 ==
    /\ pc = "reduce"
    /\ pc' = "reduced"
    /\ fn' = "process_3026_11"
    /\ ret' = process_3026_11(arg)
    /\ UNCHANGED <<req, uploads, i, accumulators, arquivo_morto, response, arg>>

Apply15 ==
    /\ pc = "reduce"
    /\ pc' = "reduced"
    /\ fn' = "process_3026_15"
    /\ ret' = process_3026_15(arg)
    /\ UNCHANGED <<req, uploads, i, accumulators, arquivo_morto, response, arg>>

Apply12 ==
    /\ pc = "reduce"
    /\ pc' = "reduced"
    /\ fn' = "process_3026_12"
    /\ ret' = process_3026_12(arg)
    /\ UNCHANGED <<req, uploads, i, accumulators, arquivo_morto, response, arg>>

NextReduce == Apply11 \/ Apply15 \/ Apply12

SpecReduce == InitReduce /\ [][NextReduce]_vars

\* -------------------------------------------- specification: Period Filter
\* the dates a row, the request and the clock can carry
PeriodDates == {Date(m, d) : m \in 0..2, d \in {1, 28}}
PeriodDateCells == PeriodDates \cup {Str("x"), NaCell}
PeriodClock == {Date(3, 1), Date(4, 1), Date(3, 28)}

PeriodRows(cols) ==
    [CONTRATO : {Str("1")}, AUDITADO : {NA}, B : {NaCell}, DEST_PAGAM : {NA},
     DEST_COMPLEM : {NA},
     DT : IF "DT.MANIFESTACAO" \in cols THEN PeriodDateCells ELSE {NaCell}]

PeriodFrames ==
    UNION {{DataFrame(cols, Indexed(cells)) : cells \in SeqsUpTo(PeriodRows(cols), MaxRows)} :
           cols \in {{"CONTRATO", "DT.MANIFESTACAO"}, {"CONTRATO"}}}

\* what the caller of the route supplies for the period filter
PeriodRequests ==
    [files : {<<<<"3026", "-", "11">>>>},
     bank_type : {"bemge"},
     filter_type : {"todos"},
     file_type : {"todos"},
     period_filter : {"ultimos_2_meses"},
     period_filter_enabled : {"true"},
     reference_date : {Date(3, 1), Date(4, 28)},
     months_back : {1, 2}]

InitPeriod ==
    /\ pc = "filter"
    /\ arg \in [df : PeriodFrames, hoje : PeriodClock]
    /\ fn = NA
    /\ ret = NA
    /\ req \in PeriodRequests
    /\ uploads = <<>>
    /\ i = 0
    /\ FreshAccumulators
    /\ arquivo_morto = {}
    /\ response = NoResponse

\* lines 753-755: the pipeline hands the table to filter_last_2_months and
\* nothing else; the function reads the clock
ApplyPeriodFilter ==
    /\ pc = "filter"
    /\ pc' = "filtered"
    /\ fn' = "filter_last_2_months"
    /\ ret' = Return(IF req.period_filter = "ultimos_2_meses"
                     THEN filter_last_2_months(arg.df, arg.hoje)
                     ELSE arg.df)
    /\ UNCHANGED <<req, uploads, i, accumulators, arquivo_morto, response, arg>>

NextPeriod == ApplyPeriodFilter

SpecPeriod == InitPeriod /\ [][NextPeriod]_vars

\* ------------------------------------------- specification: Column Removal
\* The header of a table is the sequence of its column labels.  A label is
\* a record of the name the three generally-removed columns are known by
\* ("" for any other column) and of the position the column has in the file,
\* which tells the other columns apart.
colunas_remover_geral == {"INDVAF3TR7", "INDVAF4TR7", "DT.ULT.HOMOLOGACAO"}

\* zero-based positions of the columns AF, AG, AH, BT and BU
af_index == 31
bt_index == 71
bu_index == 72

\* remove_general_columns: the columns with one of the three names go
remove_general_columns(header) ==
    SelectSeq(header, LAMBDA c : c.name \notin colunas_remover_geral)

\* the removal of BT and BU for tables of more than 73 columns only
drop_bt_bu_above_73(header) ==
    IF Len(header) > bu_index + 1
    THEN LET colunas_bt_bu == {header[k] : k \in (bt_index + 1)..(bu_index + 1)}
         IN SelectSeq(header, LAMBDA c : c \notin colunas_bt_bu)
    ELSE header

\* lines 387-391: if len(df.columns) > 72, the labels of df.columns[71:73]
\* are dropped
drop_bt_bu(header) ==
    IF Len(header) > bu_index
    THEN LET colunas_bt_bu == {header[k] : k \in (bt_index + 1)..(bu_index + 1)}
         IN SelectSeq(header, LAMBDA c : c \notin colunas_bt_bu)
    ELSE header

\* a header of n columns in which the general columns present sit, in the
\* order of their names in the file, from column AF on
GeneralAt(present) ==
    [k \in af_index..(af_index + 2) |->
        IF k = af_index /\ "INDVAF3TR7" \in present THEN "INDVAF3TR7"
        ELSE IF k = af_index + 1 /\ "INDVAF4TR7" \in present THEN "INDVAF4TR7"
        ELSE IF k = af_index + 2 /\ "DT.ULT.HOMOLOGACAO" \in present THEN "DT.ULT.HOMOLOGACAO"
        ELSE ""]

Header(n, present) ==
    [k \in 1..n |-> [pos |-> k - 1,
                     name |-> IF k - 1 \in af_index..(af_index + 2)
                              THEN GeneralAt(present)[k - 1] ELSE ""]]

ColumnHeaders ==
    {Header(n, present) : n \in (bu_index - ColumnSpread)..(bu_index + ColumnSpread + 3),
                          present \in SUBSET colunas_remover_geral}

InitColumns ==
    /\ pc = "read"
    /\ arg \in ColumnHeaders
    /\ fn = NA
    /\ ret = arg
    /\ NoRequestInFlight

\* line 726: the loop removes the general columns of the table it read
RemoveGeneralColumns ==
    /\ pc = "read"
    /\ pc' = "general_removed"
    /\ fn' = "remove_general_columns"
    /\ ret' = remove_general_columns(ret)
    /\ UNCHANGED <<req, uploads, i, accumulators, arquivo_morto, response, arg>>

\* lines 387-391: step 4 of process_3026_12
DropBTBU ==
    /\ pc = "general_removed"
    /\ pc' = "dropped"
    /\ fn' = "process_3026_12"
    /\ ret' = drop_bt_bu(ret)
    /\ UNCHANGED <<req, uploads, i, accumulators, arquivo_morto, response, arg>>

NextColumns == RemoveGeneralColumns \/ DropBTBU

SpecColumns == InitColumns /\ [][NextColumns]_vars

\* ------------------------------------------ specification: the HTTP route
valid_file_types == {"3026-11", "3026-12", "3026-15", "todos"}
valid_months_back == {1, 2, 3, 4, 5, 6, 12}

\* positional arguments of the call at main.py:127 and the parameters that
\* process_contratos declares
EndpointCallArgs == <<"files", "bank_type", "filter_type", "file_type",
                      "period_filter_enabled", "reference_date", "months_back">>
process_contratos_params == <<"files", "bank_type", "filter_type", "file_type",
                              "period_filter">>

\* Python binds positional arguments to parameters one to one; more arguments
\* than parameters is a TypeError
CallBinds(args, params) == Len(args) <= Len(params)

Body(readable, df) == [readable |-> readable, df |-> df]
Unreadable == Body(FALSE, EmptyFrame)

GoodForm11Body ==
    Body(TRUE, DataFrame({"CONTRATO", "AUDITADO"},
                         Indexed(<<[CONTRATO |-> Str("1"), AUDITADO |-> "AUDI", B |-> NaCell,
                                    DEST_PAGAM |-> NA, DEST_COMPLEM |-> NA, DT |-> NaCell]>>)))

EndpointFiles == {<<<<"3026", "-", "11">>>>, <<<<"3026", "-", "11">>, <<"a">>>>}

EndpointRequests ==
    [files : EndpointFiles,
     bank_type : {"bemge", "minas_caixa", "outro"},
     filter_type : {"auditado", "nauditado", "todos", "outro"},
     file_type : valid_file_types \cup {"outro"},
     period_filter : {NA},
     period_filter_enabled : {"true", "false", "outro"},
     reference_date : {NA, "2024-03-01"},
     months_back : valid_months_back \cup {7}]

InitEndpoint ==
    /\ pc = "endpoint"
    /\ req \in EndpointRequests
    /\ uploads \in [1..Len(req.files) -> {Unreadable, GoodForm11Body}]
    /\ i = 0
    /\ FreshAccumulators
    /\ arquivo_morto = {}
    /\ response = NoResponse
    /\ NoCall

\* main.py:70-142
processar_contratos_endpoint ==
    /\ pc = "endpoint"
    /\ IF req.file_type \notin valid_file_types
       THEN /\ response' = Error(400, "file_type invalido", <<>>)
            /\ pc' = "done"
            /\ req' = req
       ELSE IF req.period_filter_enabled \notin {"true", "false"}
       THEN /\ response' = Error(400, "period_filter_enabled deve ser 'true' ou 'false'", <<>>)
            /\ pc' = "done"
            /\ req' = req
       ELSE IF req.months_back \notin valid_months_back
       THEN /\ response' = Error(400, "months_back deve ser 1, 2, 3, 4, 5, 6 ou 12", <<>>)
            /\ pc' = "done"
            /\ req' = req
       ELSE IF req.period_filter_enabled = "true" /\ req.reference_date = NA
       THEN /\ response' = Error(400, "reference_date e obrigatorio", <<>>)
            /\ pc' = "done"
            /\ req' = req
       ELSE IF CallBinds(EndpointCallArgs, process_contratos_params)
       THEN \* the fifth positional argument lands in period_filter
            /\ req' = [req EXCEPT !.period_filter = req.period_filter_enabled]
            /\ pc' = "validate"
            /\ response' = response
       ELSE \* TypeError, caught by "except Exception" at main.py:138
            /\ response' = Error(500, "Erro ao processar contratos: TypeError", <<>>)
            /\ pc' = "done"
            /\ req' = req
    /\ UNCHANGED <<uploads, i, accumulators, arquivo_morto, arg, fn, ret>>

NextEndpoint == processar_contratos_endpoint

SpecEndpoint == InitEndpoint /\ [][NextEndpoint]_vars

\* --------------------------------------------- the pipeline: one request
\* get_bank_name
get_bank_name(bank_type) ==
    CASE bank_type = "bemge" -> "BEMGE"
      [] bank_type = "minas_caixa" -> "MINAS CAIXA"
      [] OTHER -> bank_type

\* bank_type.lower().replace(" ", "_")
NormBank(bank_type) ==
    CASE bank_type = "Minas Caixa" -> "minas_caixa"
      [] bank_type = "BEMGE" -> "bemge"
      [] OTHER -> bank_type

\* a file whose name holds no marker at all is skipped too
Skipped_unrecognised_too(file_type, filename) ==
    \/ ~detect_file_type(filename).ok
    \/ /\ file_type # "todos"
       /\ ~Contains(Upper(Marker(file_type)), Upper(filename))
       /\ ~Contains(RemoveHyphens(Upper(Marker(file_type))), Upper(filename))

\* lines 704-709: the file is skipped when its name holds neither spelling
\* of the selected form
Skipped(file_type, filename) ==
    /\ file_type # "todos"
    /\ ~Contains(Upper(Marker(file_type)), Upper(filename))
    /\ ~Contains(RemoveHyphens(Upper(Marker(file_type))), Upper(filename))


\* the audit-status filter of lines 745-751 and 931-936
FilterAudSet == {"AUDI", "AUD", "AUDITADO"}
FilterNaudSet == {"NAUD", "NAO AUDITADO", "NAUDITADO"}

FilterByAuditado(df, filter_type) ==
    LET rows == [k \in 1..Len(df.rows) |-> [df.rows[k] EXCEPT !.AUDITADO = NormText(@)]]
    IN IF filter_type = "auditado"
       THEN DataFrame(df.columns, SelectSeq(rows, LAMBDA r : r.AUDITADO \in FilterAudSet))
       ELSE IF filter_type = "nauditado"
       THEN DataFrame(df.columns, SelectSeq(rows, LAMBDA r : r.AUDITADO \in FilterNaudSet))
       ELSE DataFrame(df.columns, rows)

\* the columns added to a processed table; DUPLICADO is computed on the
\* table as it is at that line, after drop_duplicates
Tagged(df, tipo, aud_tipo, banco) ==
    DataFrame(df.columns \cup {"TIPO_ARQUIVO", "BANCO", "DUPLICADO"}
                \cup (IF aud_tipo = NA THEN {} ELSE {"AUDITADO_TIPO"}),
              [k \in 1..Len(df.rows) |->
                  df.rows[k] @@ [TIPO_ARQUIVO |-> tipo, AUDITADO_TIPO |-> aud_tipo,
                                 BANCO |-> banco,
                                 DUPLICADO |-> Duplicated(df.rows, df.rows[k])]])

\* pd.concat(frames, ignore_index=True)
RECURSIVE UnionColumns(_)
UnionColumns(frames) ==
    IF frames = <<>> THEN {} ELSE Head(frames).columns \cup UnionColumns(Tail(frames))

RECURSIVE ConcatRows(_)
ConcatRows(frames) ==
    IF frames = <<>> THEN <<>> ELSE Head(frames).rows \o ConcatRows(Tail(frames))

Concat(frames) ==
    LET rows == ConcatRows(frames) IN
    DataFrame(UnionColumns(frames), [k \in 1..Len(rows) |-> [rows[k] EXCEPT !.idx = k - 1]])

\* the consolidation structures as one value
Acc == [all |-> all_contratos, rep |-> contratos_repetidos, resumo |-> resumo_geral,
        abas |-> dados_por_aba, ult |-> dados_ultimos_2_meses, arq |-> arquivo_morto]

Continue(acc) == [raised |-> FALSE, acc |-> acc, error |-> NoResponse]
Abort(acc, err) == [raised |-> TRUE, acc |-> acc, error |-> err]

\* save_processed_file: the file at the path is replaced
Saved(arq, dir, name, df) ==
    {f \in arq : ~(f.dir = dir /\ f.name = name)} \cup {[dir |-> dir, name |-> name, df |-> df]}

\* lines 757-789 (and 813-845, 876-911): one processed table enters the
\* consolidation structures, is archived and summarised
Accumulate(acc, df_processado, label, tipo, filename, result, bank_type, save_name, also_filtragem, disk_ok, hoje) ==
    LET df_2_meses == filter_last_2_months(df_processado, hoje)
        df_repetidos == DataFrame(df_processado.columns,
                                  SelectSeq(df_processado.rows, LAMBDA r : r.DUPLICADO))
        acc1 == [acc EXCEPT
                   !.all = Append(@, df_processado),
                   !.abas = [@ EXCEPT ![label] = Append(@, df_processado)],
                   !.ult = IF IsEmpty(df_2_meses) THEN @ ELSE Append(@, df_2_meses),
                   !.rep = IF Len(df_repetidos.rows) > 0 THEN Append(@, df_repetidos) ELSE @]
        arq1 == Saved(acc1.arq, NormBank(bank_type), save_name, df_processado)
        arq2 == IF also_filtragem
                THEN Saved(arq1, "3026 - Filtragens", save_name, df_processado)
                ELSE arq1
    IN IF ~disk_ok
       THEN Abort(acc1, Error(500, "Erro ao processar contratos", <<>>))
       ELSE Continue([acc1 EXCEPT
                        !.arq = arq2,
                        !.resumo = Append(@, [ARQUIVO |-> filename, TIPO |-> tipo,
                                              TOTAL_LINHAS |-> result.total_linhas,
                                              CONTRATOS_UNICOS |-> result.total_unicos,
                                              CONTRATOS_DUPLICADOS |-> result.total_duplicados,
                                              BANCO |-> get_bank_name(NormBank(bank_type))])])

\* lines 735-789 and 791-845: a form-11 or form-15 file
HandleSimple(acc, form, df, filename, r, disk_ok, hoje) ==
    LET bank_name == get_bank_name(NormBank(r.bank_type))
        res == IF form = "3026-11" THEN process_3026_11(df) ELSE process_3026_15(df)
    IN IF ~res.ok THEN Abort(acc, Error(res.status, res.detail, res.about))
       ELSE IF IsEmpty(res.value.df) THEN Continue(acc)
       ELSE LET tagged == Tagged(res.value.df, form, NA, bank_name)
                audited == IF r.filter_type # "todos" /\ "AUDITADO" \in tagged.columns
                           THEN FilterByAuditado(tagged, r.filter_type)
                           ELSE tagged
                df_processado == IF r.period_filter = "ultimos_2_meses"
                                 THEN filter_last_2_months(audited, hoje)
                                 ELSE audited
            IN Accumulate(acc, df_processado, form, form, filename, res.value, r.bank_type,
                          <<form, bank_name, NA, res.value.total_unicos>>,
                          "AUDITADO" \in df_processado.columns, disk_ok, hoje)

\* lines 859-911: one audit partition of a form-12 file
HandlePartition(acc, tipo_aud, result, filename, r, disk_ok, hoje) ==
    LET bank_name == get_bank_name(NormBank(r.bank_type)) IN
    IF Len(result.df.rows) = 0 THEN Continue(acc)
    ELSE LET tagged == Tagged(result.df, "3026-12", tipo_aud, bank_name)
             df_processado == IF r.period_filter = "ultimos_2_meses"
                              THEN filter_last_2_months(tagged, hoje)
                              ELSE tagged
         IN Accumulate(acc, df_processado, "3026-12 " \o tipo_aud, "3026-12-" \o tipo_aud,
                       filename, result, r.bank_type,
                       <<"3026-12", bank_name, tipo_aud, result.total_unicos>>,
                       TRUE, disk_ok, hoje)

\* both partitions enter the consolidation whatever filter_type says
Handle12_both(acc, df, filename, r, disk_ok, hoje) ==
    LET resultados == process_3026_12(df) IN
    IF ~resultados.ok THEN Abort(acc, Error(resultados.status, resultados.detail, resultados.about))
    ELSE LET first == HandlePartition(acc, "AUD", resultados.value.aud, filename, r, disk_ok, hoje)
         IN IF first.raised THEN first
            ELSE HandlePartition(first.acc, "NAUD", resultados.value.naud, filename, r, disk_ok,
                                 hoje)

\* lines 847-911: a form-12 file
Handle12(acc, df, filename, r, disk_ok, hoje) ==
    LET resultados == process_3026_12(df) IN
    IF ~resultados.ok THEN Abort(acc, Error(resultados.status, resultados.detail, resultados.about))
    ELSE LET first == IF r.filter_type = "nauditado" THEN Continue(acc)
                      ELSE HandlePartition(acc, "AUD", resultados.value.aud, filename, r, disk_ok, hoje)
         IN IF first.raised \/ r.filter_type = "auditado" THEN first
            ELSE HandlePartition(first.acc, "NAUD", resultados.value.naud, filename, r, disk_ok,
                                 hoje)

\* lines 698-911: one iteration of the loop over the files
Iteration(acc, filename, body, r, disk_ok, hoje) ==
    IF Skipped(r.file_type, filename) THEN Continue(acc)
    ELSE IF ~body.readable
    THEN Abort(acc, Error(400, "Erro ao ler arquivo", filename))
    ELSE LET df == format_contrato_column(body.df)
             detected_file_type == detect_file_type(filename)
         IN IF ~detected_file_type.ok
            THEN Abort(acc, Error(detected_file_type.status, detected_file_type.detail,
                                  detected_file_type.about))
            ELSE IF detected_file_type.value = "3026-12"
            THEN Handle12(acc, df, filename, r, disk_ok, hoje)
            ELSE HandleSimple(acc, detected_file_type.value, df, filename, r, disk_ok, hoje)

\* lines 924-936 (and 941-952): the final filter on a consolidated table
FinalFilter(df, filter_type) ==
    IF filter_type = "todos" THEN df
    ELSE IF "AUDITADO_TIPO" \in df.columns
    THEN DataFrame(df.columns,
                   SelectSeq(df.rows, LAMBDA r :
                       r.AUDITADO_TIPO = (IF filter_type = "auditado" THEN "AUD" ELSE "NAUD")))
    ELSE IF "AUDITADO" \in df.columns
    THEN FilterByAuditado(df, filter_type)
    ELSE df

\* lines 968-977: counting the audited rows rewrites the AUDITADO column
\* when it is the column the count is taken on
AfterCount(df) ==
    IF "AUDITADO_TIPO" \notin df.columns /\ "AUDITADO" \in df.columns
    THEN FilterByAuditado(df, "todos")
    ELSE df

\* the duplicate total taken from the per-file summary records
TotalRepetidos_from_summary(df_repetidos) ==
    SumSeq([k \in 1..Len(resumo_geral) |-> resumo_geral[k].CONTRATOS_DUPLICADOS])

\* line 979
TotalRepetidos(df_repetidos) == IF IsEmpty(df_repetidos) THEN 0 ELSE Len(df_repetidos.rows)

\* lines 981-988
LinhaTotais(total_geral, total_repetidos, bank_name) ==
    [ARQUIVO |-> <<"TOTAL GERAL">>, TIPO |-> "-",
     TOTAL_LINHAS |-> total_geral,
     CONTRATOS_UNICOS |-> total_geral - total_repetidos,
     CONTRATOS_DUPLICADOS |-> total_repetidos,
     BANCO |-> bank_name]

\* ------------------------------------------------------------ sheet titles
\* A sheet title is the sequence of its characters.
\* 'Bemge 3026-11-Habil.Não Homol.'
Bemge_11 ==
    <<"B", "e", "m", "g", "e", " ", "3", "0", "2", "6", "-", "1", "1", "-", "H", "a", "b",
      "i", "l", ".", "N", "ã", "o", " ", "H", "o", "m", "o", "l", ".">>

\* 'Bemge 3026-12-Homol.Auditados'
Bemge_12_AUD ==
    <<"B", "e", "m", "g", "e", " ", "3", "0", "2", "6", "-", "1", "2", "-", "H", "o", "m",
      "o", "l", ".", "A", "u", "d", "i", "t", "a", "d", "o", "s">>

\* 'Bemge 3026-12-Homol.Não Auditados'
Bemge_12_NAUD ==
    <<"B", "e", "m", "g", "e", " ", "3", "0", "2", "6", "-", "1", "2", "-", "H", "o", "m",
      "o", "l", ".", "N", "ã", "o", " ", "A", "u", "d", "i", "t", "a", "d", "o", "s">>

\* 'Bemge 3026-15-Homol.Neg.Cob'
Bemge_15 ==
    <<"B", "e", "m", "g", "e", " ", "3", "0", "2", "6", "-", "1", "5", "-", "H", "o", "m",
      "o", "l", ".", "N", "e", "g", ".", "C", "o", "b">>

\* 'Minas Caixa 3026-11-Habil.Não Homol'
MinasCaixa_11 ==
    <<"M", "i", "n", "a", "s", " ", "C", "a", "i", "x", "a", " ", "3", "0", "2", "6", "-",
      "1", "1", "-", "H", "a", "b", "i", "l", ".", "N", "ã", "o", " ", "H", "o", "m", "o",
      "l">>

\* 'Minas Caixa 3026-12-Homol. Auditado'
MinasCaixa_12_AUD ==
    <<"M", "i", "n", "a", "s", " ", "C", "a", "i", "x", "a", " ", "3", "0", "2", "6", "-",
      "1", "2", "-", "H", "o", "m", "o", "l", ".", " ", "A", "u", "d", "i", "t", "a", "d",
      "o">>

\* 'Minas Caixa 3026-12-Homol.Não Auditado'
MinasCaixa_12_NAUD ==
    <<"M", "i", "n", "a", "s", " ", "C", "a", "i", "x", "a", " ", "3", "0", "2", "6", "-",
      "1", "2", "-", "H", "o", "m", "o", "l", ".", "N", "ã", "o", " ", "A", "u", "d", "i",
      "t", "a", "d", "o">>

\* 'Minas Caixa 3026-15-Homol.Neg.Cob'
MinasCaixa_15 ==
    <<"M", "i", "n", "a", "s", " ", "C", "a", "i", "x", "a", " ", "3", "0", "2", "6", "-",
      "1", "5", "-", "H", "o", "m", "o", "l", ".", "N", "e", "g", ".", "C", "o", "b">>

\* 'Resumo Geral'
Title_ResumoGeral ==
    <<"R", "e", "s", "u", "m", "o", " ", "G", "e", "r", "a", "l">>

\* 'Últimos 2 Meses'
Title_Ultimos2Meses ==
    <<"Ú", "l", "t", "i", "m", "o", "s", " ", "2", " ", "M", "e", "s", "e", "s">>

\* 'Todos Contratos'
Title_TodosContratos ==
    <<"T", "o", "d", "o", "s", " ", "C", "o", "n", "t", "r", "a", "t", "o", "s">>

\* 'Repetidos'
Title_Repetidos ==
    <<"R", "e", "p", "e", "t", "i", "d", "o", "s">>

\* get_sheet_names, keyed by the bucket labels of dados_por_aba
get_sheet_names(bank_type) ==
    IF bank_type = "bemge"
    THEN [l \in SheetLabels |->
            CASE l = "3026-11" -> Bemge_11
              [] l = "3026-12 AUD" -> Bemge_12_AUD
              [] l = "3026-12 NAUD" -> Bemge_12_NAUD
              [] l = "3026-15" -> Bemge_15]
    ELSE [l \in SheetLabels |->
            CASE l = "3026-11" -> MinasCaixa_11
              [] l = "3026-12 AUD" -> MinasCaixa_12_AUD
              [] l = "3026-12 NAUD" -> MinasCaixa_12_NAUD
              [] l = "3026-15" -> MinasCaixa_15]

\* the sheet-name limit of the [:31] slices
sheet_name_limit == 31

\* title[:31]
Truncated(title) ==
    SubSeq(title, 1, IF Len(title) < sheet_name_limit THEN Len(title) ELSE sheet_name_limit)

\* the sheet_name= argument of the to_excel call that writes the sheet
SheetTitle(name, bank_type) ==
    CASE name \in SheetLabels -> Truncated(get_sheet_names(bank_type)[name])
      [] name = "Resumo Geral" -> Title_ResumoGeral
      [] name = "Ultimos 2 Meses" -> Title_Ultimos2Meses
      [] name = "Todos Contratos" -> Title_TodosContratos
      [] name = "Repetidos" -> Title_Repetidos

Sheet(name, rows, placeholder) ==
    [name |-> name, title |-> SheetTitle(name, NormBank(req.bank_type)),
     rows |-> rows, placeholder |-> placeholder]

BucketSheet(label) ==
    IF dados_por_aba[label] # <<>>
    THEN <<Sheet(label, Concat(dados_por_aba[label]).rows, FALSE)>>
    ELSE <<>>

\* lines 920-1051: the consolidated workbook
Workbook ==
    LET df_all_contratos == AfterCount(FinalFilter(Concat(all_contratos), req.filter_type))
        df_repetidos == IF contratos_repetidos # <<>>
                        THEN FinalFilter(Concat(contratos_repetidos), req.filter_type)
                        ELSE EmptyFrame
        df_ultimos_2_meses == IF dados_ultimos_2_meses # <<>>
                              THEN Concat(dados_ultimos_2_meses)
                              ELSE EmptyFrame
        total_geral == Len(df_all_contratos.rows)
        total_repetidos == TotalRepetidos(df_repetidos)
    IN [resumo |-> Append(resumo_geral,
                          LinhaTotais(total_geral, total_repetidos,
                                      get_bank_name(NormBank(req.bank_type)))),
        sheets |-> <<Sheet("Resumo Geral", <<>>, FALSE)>>
                   \o BucketSheet("3026-11")
                   \o BucketSheet("3026-12 AUD")
                   \o BucketSheet("3026-12 NAUD")
                   \o BucketSheet("3026-15")
                   \o <<Sheet("Ultimos 2 Meses", df_ultimos_2_meses.rows,
                              IsEmpty(df_ultimos_2_meses))>>
                   \o (IF IsEmpty(df_all_contratos) THEN <<>>
                       ELSE <<Sheet("Todos Contratos", df_all_contratos.rows, FALSE)>>)
                   \o <<Sheet("Repetidos", df_repetidos.rows, IsEmpty(df_repetidos))>>]

\* ------------------------------------------- specification: the pipeline
PipelineNames ==
    {<<"3026", "-", "11">>, <<"a", "3026", "12">>, <<"3026", "15">>, <<"a">>,
     <<"3026", "12", "3026", "11">>}

\* the date of the request: the first day of month 3
PipelineClock == {Date(3, 1)}

PipelineKeys == {Str("1"), Num("2")}
PipelineStatuses == {"AUDI", " naud"}

PipelineBodies ==
    {Unreadable} \cup
    {Body(TRUE, df) : df \in
        Frames({"CONTRATO", "AUDITADO"}, PipelineKeys, PipelineStatuses, MaxFileRows)
        \cup Frames({"AUDITADO"}, PipelineKeys, {"AUDI"}, MaxFileRows)
        \cup Frames({"CONTRATO", "DT.MANIFESTACAO"}, {Str("1")}, PipelineStatuses, MaxFileRows)
        \cup Frames({"CONTRATO", "AUDITADO", "DT.MANIFESTACAO"}, {Str("1")}, {"AUDI"},
                    MaxFileRows)}

\* lines 711-715: what reading the k-th file yields: the body the request
\* carries for it when the request states its bodies, any body otherwise
ReadBodies(k) == IF uploads = <<>> THEN PipelineBodies ELSE {uploads[k]}

FileLists == UNION {[1..n -> PipelineNames] : n \in 1..MaxFiles}

ValidRequests ==
    [files : FileLists,
     bank_type : {"bemge"},
     filter_type : {"auditado", "nauditado", "todos"},
     file_type : valid_file_types,
     period_filter : {"todos", "ultimos_2_meses"},
     period_filter_enabled : {NA},
     reference_date : {NA},
     months_back : {0}]

BaseRequest ==
    [files |-> <<<<"3026", "-", "11">>>>, bank_type |-> "bemge", filter_type |-> "todos",
     file_type |-> "todos", period_filter |-> "todos", period_filter_enabled |-> NA,
     reference_date |-> NA, months_back |-> 0]

OddRequests ==
    {[BaseRequest EXCEPT !.bank_type = "outro"],
     [BaseRequest EXCEPT !.bank_type = "Minas Caixa"],
     [BaseRequest EXCEPT !.bank_type = "minas_caixa"],
     [BaseRequest EXCEPT !.filter_type = "outro"],
     [BaseRequest EXCEPT !.file_type = "outro"],
     [BaseRequest EXCEPT !.period_filter = "true"],
     [BaseRequest EXCEPT !.files = <<>>]}

Init ==
    /\ pc = "validate"
    /\ req \in ValidRequests \cup OddRequests
    /\ uploads = <<>>
    /\ i = 0
    /\ FreshAccumulators
    /\ arquivo_morto = {}
    /\ response = NoResponse
    /\ NoCall

\* lines 623-695: parameter validation and the archive directories
Validate ==
    /\ pc = "validate"
    /\ \E mkdir_ok \in BOOLEAN :
        IF NormBank(req.bank_type) \notin {"bemge", "minas_caixa"}
        THEN response' = Error(400, "bank_type deve ser 'bemge' ou 'minas_caixa'", <<>>)
        ELSE IF req.filter_type \notin {"auditado", "nauditado", "todos"}
        THEN response' = Error(400, "filter_type deve ser 'auditado', 'nauditado' ou 'todos'", <<>>)
        ELSE IF req.file_type \notin valid_file_types
        THEN response' = Error(400, "file_type deve ser '3026-11', '3026-12', '3026-15' ou 'todos'", <<>>)
        ELSE IF req.period_filter \notin {"todos", "ultimos_2_meses"}
        THEN response' = Error(400, "period_filter deve ser 'todos' ou 'ultimos_2_meses'", <<>>)
        ELSE IF Len(req.files) = 0
        THEN response' = Error(400, "Pelo menos um arquivo deve ser enviado", <<>>)
        ELSE IF ~mkdir_ok
        THEN response' = Error(500, "Erro ao criar pastas", <<>>)
        ELSE response' = response
    /\ pc' = IF response'.status = 0 THEN "loop" ELSE "done"
    /\ UNCHANGED <<req, uploads, i, accumulators, arquivo_morto, arg, fn, ret>>

\* a loop that records the failure of a file and goes on to the next file
ProcessFile_goes_on ==
    /\ pc = "loop"
    /\ i < Len(req.files)
    /\ \E body \in ReadBodies(i + 1), disk_ok \in BOOLEAN, hoje \in PipelineClock :
       \E out \in {Iteration(Acc, req.files[i + 1], body, req, disk_ok, hoje)} :
        /\ all_contratos' = out.acc.all
        /\ contratos_repetidos' = out.acc.rep
        /\ resumo_geral' = out.acc.resumo
        /\ dados_por_aba' = out.acc.abas
        /\ dados_ultimos_2_meses' = out.acc.ult
        /\ arquivo_morto' = out.acc.arq
        /\ response' = IF out.raised THEN out.error ELSE response
        /\ pc' = "loop"
    /\ i' = i + 1
    /\ UNCHANGED <<req, uploads, arg, fn, ret>>

\* lines 698-911: the next file of the request goes through the loop body;
\* its bytes, the state of the disk and the date are what the environment
\* makes them
ProcessFile ==
    /\ pc = "loop"
    /\ i < Len(req.files)
    /\ \E body \in ReadBodies(i + 1), disk_ok \in BOOLEAN, hoje \in PipelineClock :
       \E out \in {Iteration(Acc, req.files[i + 1], body, req, disk_ok, hoje)} :
        /\ all_contratos' = out.acc.all
        /\ contratos_repetidos' = out.acc.rep
        /\ resumo_geral' = out.acc.resumo
        /\ dados_por_aba' = out.acc.abas
        /\ dados_ultimos_2_meses' = out.acc.ult
        /\ arquivo_morto' = out.acc.arq
        /\ response' = IF out.raised THEN out.error ELSE response
        /\ pc' = IF out.raised THEN "done" ELSE "loop"
    /\ i' = i + 1
    /\ UNCHANGED <<req, uploads, arg, fn, ret>>

\* lines 913-1074: consolidation and the workbook
Consolidate ==
    /\ pc = "loop"
    /\ i = Len(req.files)
    /\ response' = IF all_contratos = <<>>
                   THEN Error(400, "Nenhum arquivo valido foi processado", <<>>)
                   ELSE Answer(Workbook)
    /\ pc' = "done"
    /\ UNCHANGED <<req, uploads, i, accumulators, arquivo_morto, arg, fn, ret>>

Next == Validate \/ ProcessFile \/ Consolidate

Spec == Init /\ [][Next]_vars

\* ------------------------- specification: the pipeline on stated uploads
\* numeric and text spellings of one key, a key with a leading zero, a
\* missing key
UploadKeys == {Num("1"), Str("1"), Str("01"), NaCell}

KeyAtD(df, name) == [df EXCEPT !.coluna_d = name]

UploadFrames ==
    Frames({"CONTRATO", "AUDITADO"}, UploadKeys, PipelineStatuses, MaxFileRows)
    \cup UNION {{df, KeyAtD(df, "NR_CONTRATO")} : df \in
                  Frames({"NR_CONTRATO", "AUDITADO"}, {Num("1"), Str("1")}, {"AUDI"},
                         MaxFileRows)}
    \cup Frames({"AUDITADO"}, UploadKeys, {"AUDI"}, MaxFileRows)
    \cup Frames({"CONTRATO"}, {Str("1")}, PipelineStatuses, MaxFileRows)
    \cup Frames({"CONTRATO", "AUDITADO"}, {Str("1"), Str("01")}, {"NÃO AUDITADO", "AUD"},
                MaxFileRows)

UploadBodies == {Unreadable} \cup {Body(TRUE, df) : df \in UploadFrames}

\* the requests that upload a single file
UploadRequests == {r \in ValidRequests : Len(r.files) = 1}

InitUpload ==
    /\ pc = "validate"
    /\ req \in UploadRequests
    /\ uploads \in [1..Len(req.files) -> UploadBodies]
    /\ i = 0
    /\ FreshAccumulators
    /\ arquivo_morto = {}
    /\ response = NoResponse
    /\ NoCall

SpecUpload == InitUpload /\ [][Next]_vars

\* ------------------------------------------------------- claims: reducer
\* the table a reduction starts from and the tables it returns
PreReduction ==
    IF fn = "process_3026_12"
    THEN IF IsEmpty(arg) \/ ~Partition12(arg).ok THEN <<<<>>, <<>>>>
         ELSE <<Partition12(arg).value.aud, Partition12(arg).value.naud>>
    ELSE <<format_column_d_as_text(arg).rows>>

ResultTuples ==
    IF fn = "process_3026_12" THEN <<ret.value.aud, ret.value.naud>> ELSE <<ret.value>>

Reduced == pc = "reduced" /\ ret.ok

\* C2: every result tuple of process_3026_11, process_3026_15 and of each
\* partition of process_3026_12 has total = unique + duplicates, unique =
\* number of rows of the returned table and duplicates >= 0, empty inputs
\* included.
C2_CountInvariant ==
    Reduced =>
        \A k \in 1..Len(ResultTuples) :
            LET t == ResultTuples[k] IN
            /\ t.total_linhas = t.total_unicos + t.total_duplicados
            /\ t.total_unicos = Len(t.df.rows)
            /\ t.total_duplicados >= 0

C2_Witness ==
    /\ Reduced
    /\ fn = "process_3026_12"
    /\ ret.value.aud.total_duplicados > 0
    /\ ret.value.naud.total_linhas = 0

\* the first row of pre that carries the key
FirstWith(pre, key) ==
    pre[CHOOSE j \in 1..Len(pre) :
            /\ pre[j].CONTRATO = key
            /\ \A h \in 1..(j - 1) : pre[h].CONTRATO # key]

FirstOccurrenceWins(pre, post) ==
    /\ \A m \in 1..Len(post) : \E j \in 1..Len(pre) : post[m] = pre[j]
    /\ \A j \in 1..Len(pre) :
          /\ Cardinality({m \in 1..Len(post) : post[m].CONTRATO = pre[j].CONTRATO}) = 1
          /\ \E m \in 1..Len(post) : post[m] = FirstWith(pre, pre[j].CONTRATO)
    /\ \A m1, m2 \in 1..Len(post) : m1 < m2 => post[m1].idx < post[m2].idx

\* C3: deduplication keeps, for every contract key of the pre-reduction
\* table, exactly one row, the first one in file order; the surviving rows
\* keep their relative order; no key is lost and no row is invented.
C3_FirstOccurrenceWins ==
    Reduced =>
        \A k \in 1..Len(ResultTuples) :
            FirstOccurrenceWins(PreReduction[k], ResultTuples[k].df.rows)

C3_Witness ==
    /\ Reduced
    /\ fn = "process_3026_11"
    /\ Len(arg.rows) = 3
    /\ arg.rows[1].CONTRATO = arg.rows[3].CONTRATO
    /\ arg.rows[1].CONTRATO # arg.rows[2].CONTRATO
    /\ arg.rows[1].AUDITADO # arg.rows[3].AUDITADO
    /\ ret.value.df.rows = <<arg.rows[1], arg.rows[2]>>

NoRepeatedKey(rows) ==
    \A j, h \in 1..Len(rows) : j # h => rows[j].CONTRATO # rows[h].CONTRATO

\* C4: reducing a table that holds no repeated contract key returns the same
\* rows in the same order and reports zero duplicates.
C4_Idempotent ==
    Reduced =>
        \A k \in 1..Len(ResultTuples) :
            NoRepeatedKey(PreReduction[k]) =>
                /\ ResultTuples[k].df.rows = PreReduction[k]
                /\ ResultTuples[k].total_duplicados = 0

C4_Witness ==
    /\ Reduced
    /\ fn = "process_3026_11"
    /\ Len(arg.rows) = 2
    /\ NoRepeatedKey(arg.rows)
    /\ arg.rows[1].AUDITADO = arg.rows[2].AUDITADO
    /\ "AUDITADO" \in arg.columns
    /\ ret.value.df.rows = arg.rows
    /\ ret.value.total_duplicados = 0

\* the split of lines 437-439 on the normalized table of a form-12 call
Split12 == Partition12(arg).value

Labels(rows) == {rows[k].idx : k \in 1..Len(rows)}

\* C11: form-12 partitioning is complete and disjoint: every row of the
\* normalized table is in exactly one of the audited subset, the not-audited
\* subset and the dropped rows; a row is in a subset exactly when its status
\* is a synonym of that subset, no row is in both, rows matching neither set
\* are in neither, and the returned tables inherit the disjointness.
C11_PartitionCompleteDisjoint ==
    (Reduced /\ fn = "process_3026_12" /\ ~IsEmpty(arg)) =>
        /\ \A k \in 1..Len(Split12.normalized) :
              LET r == Split12.normalized[k]
                  inAud == \E m \in 1..Len(Split12.df_aud) : Split12.df_aud[m] = r
                  inNaud == \E m \in 1..Len(Split12.df_naud) : Split12.df_naud[m] = r
              IN /\ ~(inAud /\ inNaud)
                 /\ inAud <=> r.AUDITADO \in {"AUDI", "AUD", "AUDITADO"}
                 /\ inNaud <=> r.AUDITADO \in {"NAUD", "NAO AUDITADO", "NAUDITADO",
                                               "NÃO AUDITADO"}
        /\ Labels(Split12.df_aud) \cap Labels(Split12.df_naud) = {}
        /\ Labels(Split12.df_aud) \cup Labels(Split12.df_naud) \subseteq Labels(Split12.normalized)
        /\ Len(Split12.df_aud) + Len(Split12.df_naud) <= Len(Split12.normalized)
        /\ Labels(ret.value.aud.df.rows) \subseteq Labels(Split12.df_aud)
        /\ Labels(ret.value.naud.df.rows) \subseteq Labels(Split12.df_naud)

C11_Witness ==
    /\ Reduced
    /\ fn = "process_3026_12"
    /\ Len(arg.rows) = 3
    /\ Len(Split12.normalized) = 3
    /\ Len(Split12.df_aud) = 1
    /\ Len(Split12.df_naud) = 1
    /\ \E k \in 1..3 : Split12.normalized[k].AUDITADO = "X"
    /\ Len(ret.value.aud.df.rows) = 1
    /\ Len(ret.value.naud.df.rows) = 1

\* ------------------------------------------------- claims: period filter
Filtered == pc = "filtered" /\ fn = "filter_last_2_months"

HasDateColumn(df) == "DT.MANIFESTACAO" \in df.columns

\* the cutoff the function works with: the clock reading minus two months
Cutoff == [t |-> "date", m |-> arg.hoje.m - 2, d |-> arg.hoje.d]

Before(a, b) == a.m < b.m \/ (a.m = b.m /\ a.d < b.d)

RequestedCutoff ==
    [t |-> "date", m |-> req.reference_date.m - req.months_back, d |-> req.reference_date.d]

\* C14: with the period filter enabled the retained rows are those dated on
\* or after the caller's reference date minus the caller's months_back
\* months, whatever the date at which the request is processed.
C14_CutoffFromRequest ==
    (Filtered /\ req.period_filter_enabled = "true" /\ HasDateColumn(arg.df)) =>
        ret.value.rows =
            SelectSeq(arg.df.rows,
                      LAMBDA r : r.DT.t = "date" /\ ~Before(r.DT, RequestedCutoff))

\* ---------------------------------------------------- claims: classifier
\* the name holds the marker of form nn, hyphenated or not, at some position
HasMarker(name, nn) ==
    \E k \in 1..Len(name) :
        /\ name[k] = "3026"
        /\ \/ k + 1 <= Len(name) /\ name[k + 1] = nn
           \/ k + 2 <= Len(name) /\ name[k + 1] = "-" /\ name[k + 2] = nn

\* C8: detect_file_type answers the earliest of form-11, form-12, form-15
\* whose hyphenated or non-hyphenated marker occurs in the name, whatever the
\* case of the letters around it, and raises a 400 error naming the file when
\* no marker occurs.
C8_Classifier ==
    pc = "classified" =>
        /\ HasMarker(arg, "11") => ret.ok /\ ret.value = "3026-11"
        /\ ~HasMarker(arg, "11") /\ HasMarker(arg, "12") => ret.ok /\ ret.value = "3026-12"
        /\ ~HasMarker(arg, "11") /\ ~HasMarker(arg, "12") /\ HasMarker(arg, "15")
              => ret.ok /\ ret.value = "3026-15"
        /\ ~HasMarker(arg, "11") /\ ~HasMarker(arg, "12") /\ ~HasMarker(arg, "15")
              => ~ret.ok /\ ret.status = 400 /\ ret.about = arg

C8_Witness ==
    /\ pc = "classified"
    /\ arg = <<"3026", "12", "3026", "11">>
    /\ ret.ok
    /\ ret.value = "3026-11"

\* ------------------------------------------------------ claims: the route
EndpointAccepts(r) ==
    /\ r.file_type \in valid_file_types
    /\ r.period_filter_enabled \in {"true", "false"}
    /\ r.months_back \in valid_months_back
    /\ r.period_filter_enabled = "true" => r.reference_date # NA

GoodUploads ==
    \A k \in 1..Len(req.files) :
        /\ detect_file_type(req.files[k]).ok
        /\ uploads[k].readable
        /\ ~IsEmpty(uploads[k].df)
        /\ HasAny(ContratoAliases, uploads[k].df.columns)

\* C1: a request to /processar_contratos/ that passes the route's validation,
\* carries a valid bank_type and filter_type and supplies readable, recognised,
\* non-empty files with the required columns is answered with the
\* consolidated spreadsheet, not with an error.
C1_ValidRequestAnswered ==
    (/\ pc = "done"
     /\ EndpointAccepts(req)
     /\ req.bank_type \in {"bemge", "minas_caixa"}
     /\ req.filter_type \in {"auditado", "nauditado", "todos"}
     /\ GoodUploads)
        => response.status = 200

\* --------------------------------------------------- claims: the pipeline
Answered == pc = "done" /\ response.status = 200

TotalGeral == response.workbook.resumo[Len(response.workbook.resumo)]

SheetNamed(name) ==
    LET sh == response.workbook.sheets
    IN sh[CHOOSE k \in 1..Len(sh) : sh[k].name = name]

NoFilters == req.filter_type = "todos" /\ req.period_filter = "todos"

\* C5: every surviving row of a per-file, per-category table carries a
\* DUPLICADO marker that is true exactly when its contract-key group had more
\* than one row before the reduction, so that the duplicates sheet holds rows
\* whenever some input file repeats a contract key.  The summary record of a
\* table tells whether its file repeated a key (C2); with no audit or period
\* filter the table holds one row of every group.
C5_DuplicateMarker ==
    (Answered /\ NoFilters) =>
        /\ \A k \in 1..Len(all_contratos) :
              (\E m \in 1..Len(all_contratos[k].rows) : all_contratos[k].rows[m].DUPLICADO)
                  <=> resumo_geral[k].CONTRATOS_DUPLICADOS > 0
        /\ (\E k \in 1..Len(resumo_geral) : resumo_geral[k].CONTRATOS_DUPLICADOS > 0)
              => ~SheetNamed("Repetidos").placeholder

AllForm11 == \A k \in 1..Len(req.files) : detect_file_type(req.files[k]).value = "3026-11"

\* C6: for form-11 files with filter_type 'todos' and no period filter, the
\* TOTAL GERAL row reports as total rows the sum of the per-file row counts
\* before deduplication and as duplicates the sum of the per-file duplicate
\* counts.
C6_TotalGeralSums ==
    (Answered /\ NoFilters /\ AllForm11) =>
        /\ TotalGeral.TOTAL_LINHAS =
              SumSeq([k \in 1..Len(resumo_geral) |-> resumo_geral[k].TOTAL_LINHAS])
        /\ TotalGeral.CONTRATOS_DUPLICADOS =
              SumSeq([k \in 1..Len(resumo_geral) |-> resumo_geral[k].CONTRATOS_DUPLICADOS])

\* C7: in every emitted summary the TOTAL GERAL row has unique = total -
\* duplicates, and none of the three is negative.
C7_TotalGeralInvariant ==
    Answered =>
        /\ TotalGeral.ARQUIVO = <<"TOTAL GERAL">>
        /\ TotalGeral.CONTRATOS_UNICOS = TotalGeral.TOTAL_LINHAS - TotalGeral.CONTRATOS_DUPLICADOS
        /\ TotalGeral.TOTAL_LINHAS >= 0
        /\ TotalGeral.CONTRATOS_UNICOS >= 0
        /\ TotalGeral.CONTRATOS_DUPLICADOS >= 0

C7_Witness ==
    /\ Answered
    /\ Len(req.files) = 2
    /\ req.filter_type = "nauditado"
    /\ Len(resumo_geral) = 2
    /\ resumo_geral[1].CONTRATOS_DUPLICADOS > 0
    /\ TotalGeral.TOTAL_LINHAS = 1
    /\ TotalGeral.CONTRATOS_UNICOS = 1

Unrecognised == {k \in 1..Len(req.files) : ~detect_file_type(req.files[k]).ok}

FirstUnrecognised == CHOOSE k \in Unrecognised : \A h \in Unrecognised : k <= h

IsClassificationError(r) == r.status = 400 /\ r.detail = "Tipo de arquivo nao reconhecido"

\* C9 as stated: whatever file_type selects, a request with a file whose name
\* holds none of the three markers fails with a ClassificationError naming
\* such a file, and no spreadsheet is returned.
C9_HardStopAlways ==
    (pc = "done" /\ req \in ValidRequests /\ Unrecognised # {}
       /\ response.status \in {200, 400}
       /\ response.detail \in {"", "Tipo de arquivo nao reconhecido"})
        => /\ IsClassificationError(response)
           /\ \E k \in Unrecognised : response.about = req.files[k]

\* C9 amended: with file_type 'todos', a valid request holding an
\* unrecognised file name never gets a spreadsheet; the loop never goes past
\* the first such file, and when it reaches that file the request ends there
\* with a 400 error naming it: the ClassificationError, or the read error
\* when the file's bytes cannot be read.  With a single-form file_type the
\* file is skipped before classification: no ClassificationError arises.
C9_HardStopUnderTodos ==
    /\ (pc = "done" /\ req \in ValidRequests /\ req.file_type = "todos" /\ Unrecognised # {})
        => /\ response.status # 200
           /\ i <= FirstUnrecognised
           /\ i = FirstUnrecognised =>
                 /\ response.status = 400
                 /\ response.about = req.files[FirstUnrecognised]
                 /\ response.detail \in {"Tipo de arquivo nao reconhecido", "Erro ao ler arquivo"}
           /\ IsClassificationError(response) =>
                 i = FirstUnrecognised /\ response.about = req.files[FirstUnrecognised]
    /\ (req \in ValidRequests /\ req.file_type # "todos") => ~IsClassificationError(response)

C9_Witness ==
    /\ pc = "done"
    /\ req \in ValidRequests
    /\ req.file_type = "todos"
    /\ Len(req.files) = 2
    /\ Unrecognised = {2}
    /\ Len(resumo_geral) = 1
    /\ i = 2
    /\ IsClassificationError(response)
    /\ response.about = req.files[2]

FormOf(tipo) == IF tipo \in {"3026-12-AUD", "3026-12-NAUD", "3026-12 AUD", "3026-12 NAUD"}
                THEN "3026-12" ELSE tipo

\* C10: when file_type selects one form, files of another form are skipped
\* without error, and every file that leaves a summary record, a bucket entry
\* or an archive copy is classified as the selected form.
C10_OnlySelectedForm ==
    (req \in ValidRequests /\ req.file_type # "todos" /\ response.status \in {0, 200}) =>
        /\ \A k \in 1..Len(resumo_geral) : FormOf(resumo_geral[k].TIPO) = req.file_type
        /\ \A l \in SheetLabels : dados_por_aba[l] # <<>> => FormOf(l) = req.file_type
        /\ \A f \in arquivo_morto : f.name[1] = req.file_type

\* ------------------------------------- claims: the pipeline on stated uploads
AllForm12 ==
    \A k \in 1..Len(req.files) :
        /\ detect_file_type(req.files[k]).ok
        /\ detect_file_type(req.files[k]).value = "3026-12"

\* the partition filter_type asks for, and the other one
Wanted == IF req.filter_type = "auditado" THEN "AUD" ELSE "NAUD"
Unwanted == IF req.filter_type = "auditado" THEN "NAUD" ELSE "AUD"

WantedSynonyms == IF req.filter_type = "auditado" THEN AudSynonyms ELSE NaudSynonyms

\* the text of a key cell, whatever its type
CellText(x) == IF x.t = "na" THEN "" ELSE x.v

\* the rows of the uploaded tables that carry a status of the wanted class
WantedUploadRows ==
    UNION {{uploads[k].df.rows[m] : m \in {n \in 1..Len(uploads[k].df.rows) :
                NormText(uploads[k].df.rows[n].AUDITADO) \in WantedSynonyms}}
           : k \in 1..Len(uploads)}

HasSheet(name) ==
    \E k \in 1..Len(response.workbook.sheets) : response.workbook.sheets[k].name = name

KeyNamedContrato ==
    \A k \in 1..Len(uploads) : uploads[k].readable => "CONTRATO" \in uploads[k].df.columns

Texts(rows) == {CellText(rows[k].CONTRATO) : k \in 1..Len(rows)}

\* C15: with the key in a column named CONTRATO, every key of a processed
\* table is a string: the integer rendering of a numeric cell, the text of a
\* string cell with its leading zeros, the empty string for a missing cell.
\* A numeric cell and a string cell with the same text are one deduplication
\* group: no table holds the same text twice and a form-11 or form-15 file
\* counts as many unique contracts as its rows hold distinct texts.
C15_Canonicalization ==
    (uploads # <<>> /\ KeyNamedContrato) =>
        /\ \A k \in 1..Len(all_contratos) :
              LET rows == all_contratos[k].rows IN
              /\ \A m \in 1..Len(rows) : rows[m].CONTRATO.t = "str"
              /\ \A m, n \in 1..Len(rows) :
                    m # n => CellText(rows[m].CONTRATO) # CellText(rows[n].CONTRATO)
        /\ (Len(resumo_geral) = 1 /\ resumo_geral[1].TIPO \in {"3026-11", "3026-15"}) =>
              /\ resumo_geral[1].CONTRATOS_UNICOS = Cardinality(Texts(uploads[1].df.rows))
              /\ NoFilters =>
                    {all_contratos[1].rows[m].CONTRATO : m \in 1..Len(all_contratos[1].rows)}
                      = {Str(t) : t \in Texts(uploads[1].df.rows)}

\* a form-11 file whose two rows carry the number 1 and the text "1"
C15_Witness ==
    /\ uploads # <<>>
    /\ "CONTRATO" \in uploads[1].df.columns
    /\ Len(uploads[1].df.rows) = 2
    /\ uploads[1].df.rows[1].CONTRATO = Num("1")
    /\ uploads[1].df.rows[2].CONTRATO = Str("1")
    /\ Len(resumo_geral) = 1
    /\ resumo_geral[1].TIPO = "3026-11"
    /\ resumo_geral[1].CONTRATOS_UNICOS = 1
    /\ resumo_geral[1].CONTRATOS_DUPLICADOS = 1
    /\ all_contratos[1].rows[1].CONTRATO = Str("1")

\* a form-11 file whose rows carry "01" and a missing key
C15_WitnessZerosAndMissing ==
    /\ uploads # <<>>
    /\ "CONTRATO" \in uploads[1].df.columns
    /\ Len(uploads[1].df.rows) = 2
    /\ uploads[1].df.rows[1].CONTRATO = Str("01")
    /\ uploads[1].df.rows[2].CONTRATO = NaCell
    /\ Len(resumo_geral) = 1
    /\ NoFilters
    /\ all_contratos[1].rows[1].CONTRATO = Str("01")
    /\ all_contratos[1].rows[2].CONTRATO = Str("")

KeyUnderAlias ==
    \A k \in 1..Len(uploads) :
        /\ uploads[k].readable
        /\ "CONTRATO" \notin uploads[k].df.columns
        /\ HasAny(ContratoAliases, uploads[k].df.columns)

\* C16: when the key is found under an alias, the processed table names the
\* column CONTRATO and its keys are canonical strings, so that a numeric
\* cell and a string cell with the same text are one deduplication group.
C16_AliasCanonicalized ==
    (uploads # <<>> /\ KeyUnderAlias) =>
        \A k \in 1..Len(all_contratos) :
            LET rows == all_contratos[k].rows IN
            /\ "CONTRATO" \in all_contratos[k].columns
            /\ ContratoAliases[4] \notin all_contratos[k].columns
            /\ \A m \in 1..Len(rows) : rows[m].CONTRATO.t = "str"
            /\ \A m, n \in 1..Len(rows) :
                  m # n => CellText(rows[m].CONTRATO) # CellText(rows[n].CONTRATO)

\* the k-th file reaches its form's processing function
Processed(k) ==
    /\ ~Skipped(req.file_type, req.files[k])
    /\ uploads[k].readable
    /\ detect_file_type(req.files[k]).ok

\* the table of the k-th file lacks a column its form requires
LacksRequiredColumn(k) ==
    \/ ~HasAny(ContratoAliases, uploads[k].df.columns)
    \/ /\ detect_file_type(req.files[k]).value = "3026-12"
       /\ ~HasAny(AuditadoAliases, uploads[k].df.columns)

IsMissingColumnError(r) ==
    /\ r.status = 400
    /\ r.detail \in {"Coluna CONTRATO nao encontrada no arquivo 3026-11",
                      "Coluna CONTRATO nao encontrada no arquivo 3026-15",
                      "Coluna CONTRATO nao encontrada no arquivo 3026-12",
                      "Coluna AUDITADO nao encontrada no arquivo 3026-12"}
    /\ r.workbook = NoWorkbook

\* C17: a request whose first processed file lacks the contract-key column
\* (or, for form 12, the audit-status column) ends with the missing-column
\* error and without a spreadsheet, tables with zero data rows included.
C17_MissingColumn ==
    (/\ pc = "done"
     /\ uploads # <<>>
     /\ i = 1
     /\ Processed(1)
     /\ LacksRequiredColumn(1))
        => IsMissingColumnError(response)

IsNoValidFilesError(r) ==
    r.status = 400 /\ r.detail = "Nenhum arquivo valido foi processado"

\* the rows produced for the all-contracts table by the files of the request
ProducedRows == SumSeq([k \in 1..Len(all_contratos) |-> Len(all_contratos[k].rows)])

\* C18: a request whose files have all gone through the loop fails with the
\* no-valid-files error exactly when they produced zero rows for the
\* all-contracts table, and a spreadsheet that is returned always has an
\* all-contracts sheet with at least one row.
C18_NoValidFiles ==
    (pc = "done" /\ req \in ValidRequests /\ i = Len(req.files)
       /\ (response.status = 200 \/ IsNoValidFilesError(response))) =>
        /\ IsNoValidFilesError(response) <=> ProducedRows = 0
        /\ response.status = 200 =>
              /\ HasSheet("Todos Contratos")
              /\ Len(SheetNamed("Todos Contratos").rows) > 0

\* the processing of a file has failed: the loop has consumed a file and the
\* request carries an error that is not the one consolidation raises
FailedInLoop ==
    /\ i >= 1
    /\ response.status \notin {0, 200}
    /\ ~IsNoValidFilesError(response)

\* C19: the files go through the loop one at a time in the order of the
\* request; once the processing of a file has failed the request is over with
\* an error and without a spreadsheet, and from then on no file is processed
\* and nothing of the request changes, however many earlier files succeeded;
\* a request that ends before its last file ends with an error.
C19_NoPartialSuccess ==
    /\ [](FailedInLoop => /\ pc = "done"
                          /\ response.status >= 400
                          /\ response.workbook = NoWorkbook)
    /\ [][/\ FailedInLoop => UNCHANGED <<i, accumulators, arquivo_morto, response>>
          /\ i' # i => (i' = i + 1 /\ i' <= Len(req.files))
          /\ (pc = "loop" /\ pc' = "done" /\ i' < Len(req.files)) =>
                (response'.status >= 400 /\ response'.workbook = NoWorkbook)]_vars

\* the second of two files fails after the first left its summary record
C19_Witness ==
    /\ FailedInLoop
    /\ Len(req.files) = 2
    /\ i = 2
    /\ Len(resumo_geral) = 1
    /\ all_contratos # <<>>
    /\ response.status = 400
    /\ response.workbook = NoWorkbook

\* the first of two files fails and the second is never processed
C19_WitnessFirstFails ==
    /\ FailedInLoop
    /\ Len(req.files) = 2
    /\ i = 1
    /\ pc = "done"

IsIOFailure(r) == r.detail \in {"Erro ao criar pastas", "Erro ao ler arquivo"}

\* C20: a failure to create the archive directories and a failure to read
\* the bytes of a file both end the request with a server-class status.
C20_IOErrorsAreServerErrors ==
    (pc = "done" /\ IsIOFailure(response)) => response.status >= 500

\* C21: once the archive directories exist, a failure to write an archival
\* copy does not change the response: no request that has entered the loop
\* over its files ends with a server-class error.
C21_ArchiveWritesBestEffort ==
    i >= 1 => response.status < 500

\* the archival copies in the directory of the request's bank
BankCopies == {f \in arquivo_morto : f.dir = NormBank(req.bank_type)}

\* C22: after a successful request the bank's archive directory holds one
\* copy for each per-file, per-category table that was processed: a later
\* table never takes the place of the copy of an earlier one.
C22_OneCopyPerTable ==
    Answered =>
        /\ Cardinality(BankCopies) = Len(resumo_geral)
        /\ \A k \in 1..Len(all_contratos) : \E f \in BankCopies : f.df = all_contratos[k]

\* the labels of the buckets that received a table, in the order of the
\* workbook
FilledBuckets ==
    SelectSeq(<<"3026-11", "3026-12 AUD", "3026-12 NAUD", "3026-15">>,
              LAMBDA l : dados_por_aba[l] # <<>>)

\* the titles a workbook of the bank can carry
BankTitles(bank_type) ==
    {SheetTitle(name, bank_type) :
        name \in SheetLabels \cup {"Resumo Geral", "Ultimos 2 Meses", "Todos Contratos",
                                    "Repetidos"}}

\* C23: the workbook has its sheets in the fixed order: summary; form 11,
\* form 12 audited, form 12 not audited, form 15, each present exactly when
\* its bucket received a table; recent window, with data or as placeholder;
\* all contracts; duplicates, with data or as placeholder.  Every title has
\* at most 31 characters and the titles of a bank are pairwise distinct.
C23_SheetOrderAndTitles ==
    /\ \A bank_type \in {"bemge", "minas_caixa"} :
          /\ Cardinality(BankTitles(bank_type)) = Cardinality(SheetLabels) + 4
          /\ \A t \in BankTitles(bank_type) : Len(t) <= 31
    /\ Answered =>
          LET sh == response.workbook.sheets IN
          /\ [k \in 1..Len(sh) |-> sh[k].name]
                = <<"Resumo Geral">> \o FilledBuckets
                    \o <<"Ultimos 2 Meses", "Todos Contratos", "Repetidos">>
          /\ \A k \in 1..Len(sh) :
                /\ Len(sh[k].title) <= 31
                /\ sh[k].title = SheetTitle(sh[k].name, NormBank(req.bank_type))
                /\ sh[k].placeholder => /\ sh[k].rows = <<>>
                                        /\ sh[k].name \in {"Ultimos 2 Meses", "Repetidos"}
                /\ \A h \in 1..Len(sh) : h # k => sh[h].title # sh[k].title

\* the same with the all-contracts sheet left out of the expectation when
\* the table has no rows
SheetOrderButForEmptyTable ==
    Answered =>
        LET sh == response.workbook.sheets IN
        [k \in 1..Len(sh) |-> sh[k].name]
            = <<"Resumo Geral">> \o FilledBuckets \o <<"Ultimos 2 Meses">>
                \o (IF TotalGeral.TOTAL_LINHAS = 0 THEN <<>> ELSE <<"Todos Contratos">>)
                \o <<"Repetidos">>

\* the request uploaded one form-11 or form-15 file, which left its table
OneSimpleTable ==
    /\ uploads # <<>>
    /\ Len(all_contratos) = 1
    /\ Len(resumo_geral) = 1
    /\ resumo_geral[1].TIPO \in {"3026-11", "3026-15"}

\* the uploaded table has a status column and no key twice
StatusPerKey ==
    /\ "AUDITADO" \in uploads[1].df.columns
    /\ Cardinality(Texts(uploads[1].df.rows)) = Len(uploads[1].df.rows)

\* C24: the status values the form-12 partition takes as not audited are
\* the ones the not-audited filter on form-11 and form-15 tables and the
\* final filter on the all-contracts table retain, and likewise for the
\* audited values: under filter_type 'auditado' or 'nauditado' the table of
\* a form-11 or form-15 file, and the all-contracts sheet, hold the keys of
\* exactly the rows whose status is in the partition's set of that class
\* (the table having a status column and no key twice).
C24_OneSynonymSet ==
    (OneSimpleTable /\ KeyNamedContrato /\ StatusPerKey /\ req.filter_type \in {"auditado", "nauditado"}) =>
        /\ Texts(all_contratos[1].rows) = {CellText(r.CONTRATO) : r \in WantedUploadRows}
        /\ Answered =>
              Texts(FinalFilter(Concat(all_contratos), req.filter_type).rows)
                = {CellText(r.CONTRATO) : r \in WantedUploadRows}

\* the rows shown on the bucket sheets
BucketRows == ConcatRows([k \in 1..Len(FilledBuckets) |->
                            Concat(dados_por_aba[FilledBuckets[k]])])

\* the all-contracts table of the workbook
AllContractsRows ==
    IF HasSheet("Todos Contratos") THEN SheetNamed("Todos Contratos").rows ELSE <<>>

SameContract(a, b) ==
    /\ a.CONTRATO = b.CONTRATO
    /\ a.TIPO_ARQUIVO = b.TIPO_ARQUIVO
    /\ a.AUDITADO_TIPO = b.AUDITADO_TIPO

\* C25: for every filter_type and mix of forms, the all-contracts table
\* holds exactly the rows of the bucket sheets: the TOTAL GERAL total is the
\* sum of the bucket row counts and every row of a bucket sheet is a row of
\* the all-contracts table.
C25_AllContractsIsUnionOfBuckets ==
    Answered =>
        /\ TotalGeral.TOTAL_LINHAS = Len(BucketRows)
        /\ Len(AllContractsRows) = Len(BucketRows)
        /\ \A k \in 1..Len(BucketRows) :
              \E m \in 1..Len(AllContractsRows) :
                  SameContract(BucketRows[k], AllContractsRows[m])

\* C26: the unique-contract count of a per-file summary record, which is
\* also the count in the name of the table's archive copy, is the number of
\* rows the file and category contributed to the all-contracts table and
\* wrote to the archive copy, audit and period filters included.
C26_UniqueCountIsContribution ==
    (req \in ValidRequests /\ response.status \in {0, 200}) =>
        /\ Len(resumo_geral) = Len(all_contratos)
        /\ \A k \in 1..Len(resumo_geral) :
              resumo_geral[k].CONTRATOS_UNICOS = Len(all_contratos[k].rows)
        /\ \A f \in arquivo_morto : f.name[4] = Len(f.df.rows)

\* ------------------------------------------- claims: the steps of form 12
\* the rows of the table whose column B reads 52101, as number or as text
Rows52101 == SelectSeq(arg.rows, LAMBDA r : r.B.t # "na" /\ r.B.v = "52101")

\* the rows that went on to the later steps of process_3026_12, each of
\* which falls into one of the two partitions
Continued == ret.value.aud.total_linhas + ret.value.naud.total_linhas

KeysOf(rows) == {rows[k].CONTRATO : k \in 1..Len(rows)}

\* C27: process_3026_12 on a non-empty table with a column B restricts the
\* table to the rows whose B reads 52101 (number or text) when there is such
\* a row, and lets every row through when there is none: the step never
\* empties the table.
C27_ColumnBFilter ==
    (pc = "reduced" /\ fn = "process_3026_12" /\ "B" \in arg.columns /\ ~IsEmpty(arg)) =>
        /\ ret.ok
        /\ Continued > 0
        /\ Continued = (IF Len(Rows52101) > 0 THEN Len(Rows52101) ELSE Len(arg.rows))
        /\ KeysOf(ret.value.aud.df.rows) \cup KeysOf(ret.value.naud.df.rows)
              = KeysOf(IF Len(Rows52101) > 0 THEN Rows52101 ELSE arg.rows)

\* a table of three rows of which one reads 52101
C27_Witness ==
    /\ pc = "reduced"
    /\ fn = "process_3026_12"
    /\ "B" \in arg.columns
    /\ Len(arg.rows) = 3
    /\ Len(Rows52101) = 1
    /\ Continued = 1

\* a table of two rows of which none reads 52101
C27_WitnessSkipped ==
    /\ pc = "reduced"
    /\ fn = "process_3026_12"
    /\ "B" \in arg.columns
    /\ Len(arg.rows) = 2
    /\ Len(Rows52101) = 0
    /\ Continued = 2

\* the header as it reaches step 4: the file's header less the general
\* columns
Reaching == SelectSeq(arg, LAMBDA c : c.name = "")

\* a header less its columns at zero-based positions 71 and 72
WithoutBTBU(header) ==
    [k \in 1..(Len(header) - 2) |-> IF k <= 71 THEN header[k] ELSE header[k + 2]]

\* C28 as stated: the columns at positions 71 and 72 are dropped when the
\* table has more than 73 columns and the header is unchanged for a table
\* of 73 or fewer columns.
C28_DropAbove73 ==
    pc = "dropped" =>
        ret = (IF Len(Reaching) > 73 THEN WithoutBTBU(Reaching) ELSE Reaching)

\* C28 amended: the columns at positions 71 and 72 are dropped when the
\* table has at least 73 columns, that is whenever it has both positions,
\* and the header is unchanged for a table of 72 or fewer columns; the
\* positions are those of the header less the general columns.
C28_DropFrom73 ==
    pc = "dropped" =>
        ret = (IF Len(Reaching) >= 73 THEN WithoutBTBU(Reaching) ELSE Reaching)

\* a file of 76 columns, three of them general: 73 reach step 4, 71 leave it
C28_Witness ==
    /\ pc = "dropped"
    /\ Len(arg) = 76
    /\ Len(Reaching) = 73
    /\ Len(ret) = 71
    /\ \A k \in 1..Len(ret) : ret[k].pos \notin {74, 75}

====
